---- MODULE Spec2Model ----
(***************************************************************************)
(* chemidr/id_map.py: the PubChem / E-utilities identifier resolvers.      *)
(*                                                                         *)
(* One call of one entry point is modelled per behaviour: Init picks the   *)
(* entry point and its arguments, the actions are the steps of that call.  *)
(* The remote services are the environment: every GET is answered with a   *)
(* status code and, for a 200, a body chosen among the shapes the endpoint *)
(* can send.                                                               *)
(*                                                                         *)
(* Python values.  A str is a sequence of hyphen-separated segments, each  *)
(* segment an opaque triple <<tag, a, b>>; np.nan and None are NaN and the *)
(* absent fetch result.  A list is a sequence, a dict a function.          *)
(***************************************************************************)
EXTENDS Integers, Sequences, FiniteSets, TLC

VARIABLES
    op,         \* the entry point called
    args,       \* its arguments
    pc,         \* position in the entry point's body
    chunks,     \* cids after line 33 / 82: the result of __divide_list__
    bi,         \* index of the batch the for-loop is at
    acc,        \* inchikeys / upacs: the accumulated list or dict
    sid,        \* mesh2pid's local sid
    result,     \* the value returned
    raised,     \* the exception that left the call, "none" if none
    fpc,        \* __safe_urlopen__: "idle", "call" (a frame is entered), "ret"
    furl,       \* __safe_urlopen__: the url argument of the outermost call
    url,        \* __safe_urlopen__: the url argument of the current frame
    depth,      \* __safe_urlopen__: frames of the recursion on the stack
    fret,       \* __safe_urlopen__: the value returned
    statuses,   \* history: status codes received during the current fetch
    lastBody,   \* history: body of the last response received
    log,        \* history: GETs and sleeps of the current fetch, in order
    nreq,       \* history: GETs issued since the entry point was called
    fetches,    \* history: urls the entry point passed to __safe_urlopen__
    returned    \* history: the values __safe_urlopen__ returned to the entry point

vars == <<op, args, pc, chunks, bi, acc, sid, result, raised, fpc, furl, url,
          depth, fret, statuses, lastBody, log, nreq, fetches, returned>>

(***************************************************************************)
(* Bounds of the model.                                                    *)
(***************************************************************************)
\* longest list handed to __divide_list__ directly
MaxLen == 205
\* the resolvers are called with 0..MaxSmall identifiers and with lists around
\* one and two full batches
MaxSmall == 3
\* frames of __safe_urlopen__ the interpreter's stack has room for.  CPython
\* bounds the call stack (sys.getrecursionlimit(), 1000 by default); the model
\* keeps the limit small, the behaviour at the limit is the same.
RecursionLimit == 4
\* a list with repeated identifiers repeats them with this period
DupPeriod == 2

(***************************************************************************)
(* Program constants.                                                      *)
(***************************************************************************)
\* id_map.py:113  len(ids) / 100
BatchMax == 100

Min(a, b) == IF a <= b THEN a ELSE b

\* ---------------------------------------------------------------- values
Text(tag, a, b) == << <<tag, a, b>> >>
NaN == Text("nan", 0, 0)
\* str(int(i)) of lines 33 / 82, and the int the JSON "CID" member parses to
StrOfInt(i) == Text("int", i, 0)
IntOfStr(s) == s[1][2]
\* ikey.split('-')[0]
SplitFirst(s) == <<s[1]>>

Absent == [none |-> TRUE, content |-> <<>>]
Present(body) == [none |-> FALSE, content |-> body]

\* ------------------------------------------------------- __divide_list__
\* int(math.ceil(len(ids) / 100))
NumDivisions_floor(n) == n \div BatchMax
NumDivisions(n) == (n + BatchMax - 1) \div BatchMax

\* np.array_split(ary, k), k > 0: the first n % k sections hold n \div k + 1
\* elements, the others n \div k
SectionStart(n, k, i) == (i - 1) * (n \div k) + Min(i - 1, n % k)
SectionLen(n, k, i) == (n \div k) + (IF i <= n % k THEN 1 ELSE 0)
array_split(ary, k) ==
    [i \in 1..k |->
        SubSeq(ary, SectionStart(Len(ary), k, i) + 1,
                    SectionStart(Len(ary), k, i) + SectionLen(Len(ary), k, i))]
\* np.array_split raises ValueError('number sections must be larger than 0.')
array_split_raises(k) == k <= 0

divide_list_raises(ids) == array_split_raises(NumDivisions(Len(ids)))
divide_list(ids) == array_split(ids, NumDivisions(Len(ids)))

\* ------------------------------------------------------------- the urls
\* line 49 / 91: .../compound/cid/{','.join(ids)}/property/{query_type}/JSON
PropertyUrl(ids, query_type) == [kind |-> "property", ids |-> ids, prop |-> query_type]
\* line 169: .../compound/cid/<cid>/property/CanonicalSMILES/XML
SmilesUrl(cid) == [kind |-> "smiles", cid |-> cid]
\* line 196: .../esearch.fcgi?db=pcsubstance&term={mesh}&retmode=json
ESearchUrl(mesh) == [kind |-> "esearch", term |-> mesh]
\* line 208: .../substance/sid/{sid}/xml
SubstanceUrl(s) == [kind |-> "substance", sid |-> s]
\* the urls a direct call of __safe_urlopen__ is given
RawUrls == {[kind |-> "raw", n |-> 1], [kind |-> "raw", n |-> 2]}

\* ----------------------------------------------------------- the upstream
\* the status codes the services answer with: the four the fetcher names
\* and one it does not
Statuses == {200, 404, 429, 503, 500}

\* the value the service holds for a compound: an InChIKey has three
\* hyphen-separated parts, the other properties are modelled hyphen-free.
\* ver tells two answers for the same compound apart.
PropertyValue(prop, cid, ver) ==
    IF prop = "InChIKey"
    THEN <<<<prop, cid, ver>>, <<"UHFFFAOYSA", 0, 0>>, <<"N", 0, 0>>>>
    ELSE Text(prop, cid, ver)

\* one object of PropertyTable.Properties: "CID" and, when `has`, the member
\* named by the requested property
PropertyRecord(prop, s, ver, has) ==
    [CID |-> IntOfStr(s), has |-> has,
     val |-> IF has THEN PropertyValue(prop, IntOfStr(s), ver) ELSE NaN]

Reverse(s) == [i \in 1..Len(s) |-> s[Len(s) + 1 - i]]

\* the Properties list of a 200 answer to a property url: a record for every
\* requested identifier in request order ("full"), the same reversed, the
\* first identifier left out, or the first record without the property; two
\* full answers differ in the values (ver)
Shapes == {<<"full", 1>>, <<"full", 2>>, <<"reversed", 1>>, <<"omitFirst", 2>>,
           <<"noField", 1>>}
Properties(u, mode, ver) ==
    LET all == [i \in 1..Len(u.ids) |->
                  PropertyRecord(u.prop, u.ids[i], ver, ~(mode = "noField" /\ i = 1))]
    IN  CASE mode = "reversed" -> Reverse(all)
          [] mode = "omitFirst" -> IF all = <<>> THEN all ELSE Tail(all)
          [] OTHER -> all

\* esearchresult.idlist, and esearchresult.count (the length of the idlist) as
\* json.loads gives it: an int for a JSON number, a str for a JSON string of
\* digits, which is how E-utilities sends it ("count": "0")
IdLists == {<<>>, <<Text("sid", 7, 0)>>, <<Text("sid", 7, 0), Text("sid", 9, 0)>>}
CountTypes == {"int", "str"}
ESearchResults ==
    {[count |-> [ty |-> t, n |-> Len(l)], idlist |-> l] : t \in CountTypes, l \in IdLists}
\* the text of the PC-CompoundType_id_cid elements of a substance document
CidElements == {<<>>, <<Text("cid", 3, 0)>>, <<Text("cid", 3, 0), Text("cid", 5, 0)>>}
\* the text of the CanonicalSMILES elements of a property document
SmilesElements == {<<>>, <<Text("smiles", 1, 0)>>}

\* the bodies a 200 answer to url u can carry
Bodies(u) ==
    CASE u.kind = "property" ->
            {[props |-> Properties(u, sh[1], sh[2])] : sh \in Shapes}
      [] u.kind = "esearch" -> ESearchResults
      [] u.kind = "substance" -> {[cids |-> c] : c \in CidElements}
      [] u.kind = "smiles" -> {[smiles |-> c] : c \in SmilesElements}
      [] OTHER -> {[raw |-> u.n], [raw |-> 0]}
\* the body of any other answer
ErrorBody == [error |-> TRUE]

\* ----------------------------------------------------- __safe_urlopen__
IsTransient(status) == status \in {429, 503}

\* time.sleep(.5) after a 429, time.sleep(1) after a 503, in milliseconds
Delay_swapped(status) == IF status = 429 THEN 1000 ELSE 500
Delay(status) == IF status = 429 THEN 500 ELSE 1000

\* what a frame returns for a status that is not retried
Outcome_content(status, body) ==
    IF status = 404 THEN Absent ELSE Present(body)
Outcome(status, body) ==
    CASE status = 200 -> Present(body)
      [] status = 404 -> Absent
      [] OTHER -> Absent

GET(u) == [ev |-> "GET", url |-> u, ms |-> 0]
Sleep(ms) == [ev |-> "sleep", url |-> <<>>, ms |-> ms]

\* a caller's  __safe_urlopen__(u)
CallFetch(u) ==
    /\ fpc' = "call"
    /\ furl' = u
    /\ url' = u
    /\ depth' = 0
    /\ fret' = Absent
    /\ statuses' = <<>>
    /\ lastBody' = ErrorBody
    /\ log' = <<>>
    /\ fetches' = Append(fetches, u)
    /\ UNCHANGED nreq

\* the caller takes the returned value: the frames are gone
FetchTaken ==
    /\ fpc' = "idle"
    /\ furl' = <<>>
    /\ url' = <<>>
    /\ depth' = 0
    /\ fret' = Absent
    /\ statuses' = <<>>
    /\ lastBody' = ErrorBody
    /\ log' = <<>>
    /\ UNCHANGED <<nreq, fetches>>

FetchIdle == UNCHANGED <<fpc, furl, url, depth, fret, statuses, lastBody, log, nreq, fetches>>
CallerIdle == UNCHANGED <<op, args, pc, chunks, bi, acc, sid, result, raised, returned>>

\* lines 136-152, one frame: the GET, then the branch on the status code.
\* A 429 or 503 sleeps and enters the next frame with the same url; the
\* value that frame returns is returned through every frame below it.
safe_urlopen_frame ==
    /\ fpc = "call"
    /\ depth < RecursionLimit
    /\ \E status \in Statuses :
       \E body \in (IF status = 200 THEN Bodies(url) ELSE {ErrorBody}) :
          /\ statuses' = Append(statuses, status)
          /\ lastBody' = body
          /\ nreq' = nreq + 1
          /\ IF IsTransient(status)
             THEN /\ log' = log \o <<GET(url), Sleep(Delay(status))>>
                  /\ depth' = depth + 1
                  /\ UNCHANGED <<fpc, fret>>
             ELSE /\ log' = Append(log, GET(url))
                  /\ depth' = 0
                  /\ fpc' = "ret"
                  /\ fret' = Outcome(status, body)
    /\ UNCHANGED <<furl, url, fetches>>
    /\ CallerIdle

\* lines 144 / 149 with no room left on the interpreter's stack: the call
\* raises RecursionError, which no caller catches
safe_urlopen_overflow ==
    /\ fpc = "call"
    /\ depth >= RecursionLimit
    /\ fpc' = "idle"
    /\ depth' = 0
    /\ raised' = "RecursionError"
    /\ pc' = "done"
    /\ UNCHANGED <<op, args, chunks, bi, acc, sid, result, returned>>
    /\ UNCHANGED <<furl, url, fret, statuses, lastBody, log, nreq, fetches>>

\* ------------------------------------------------- __divide_list__ called
\* lines 112-118
divide_list_call ==
    /\ op = "__divide_list__"
    /\ pc = "start"
    /\ IF divide_list_raises(args.ids)
       THEN /\ raised' = "ValueError"
            /\ UNCHANGED <<chunks, result>>
       ELSE /\ chunks' = divide_list(args.ids)
            /\ result' = divide_list(args.ids)
            /\ UNCHANGED raised
    /\ pc' = "done"
    /\ UNCHANGED <<op, args, bi, acc, sid, returned>>
    /\ FetchIdle

\* ------------------------------------------------ __safe_urlopen__ called
safe_urlopen_call ==
    /\ op = "__safe_urlopen__"
    /\ pc = "start"
    /\ CallFetch(args.url)
    /\ pc' = "fetch"
    /\ UNCHANGED <<op, args, chunks, bi, acc, sid, result, raised, returned>>

safe_urlopen_return ==
    /\ op = "__safe_urlopen__"
    /\ pc = "fetch"
    /\ fpc = "ret"
    /\ result' = fret
    /\ pc' = "done"
    /\ fpc' = "idle"
    /\ returned' = Append(returned, fret)
    /\ UNCHANGED <<op, args, chunks, bi, acc, sid, raised>>
    /\ UNCHANGED <<furl, url, depth, fret, statuses, lastBody, log, nreq, fetches>>

\* ------------------------------------------- cids2inchis and cids2upacs
\* lines 41-46, and the property line 91 names
QueryType ==
    CASE op = "cids2upacs" -> "IUPACName"
      [] args.keys -> "InChIKey"
      [] OTHER -> "InChI"

\* lines 74-78
safe_object_access(p) == IF p.has THEN p.val ELSE NaN

\* p[query_type] of lines 57 / 63 raises KeyError when the member is missing
SubscriptRaises(props) == \E i \in 1..Len(props) : ~props[i].has

\* p[query_type] (cids2inchis) or __safe_object_access__(p, 'IUPACName')
ValueOf(p) == IF op = "cids2upacs" THEN safe_object_access(p) ELSE p.val

\* lines 56-58 / 98-100: {p['CID'] : ... for p in ...}; a later record with
\* the same CID replaces an earlier one
NewDict(props) ==
    [k \in {props[i].CID : i \in 1..Len(props)} |->
        LET last == CHOOSE i \in 1..Len(props) :
                       /\ props[i].CID = k
                       /\ \A j \in (i + 1)..Len(props) : props[j].CID # k
        IN  ValueOf(props[last])]

\* lines 62-64 / 104-106
NewList(props) == [i \in 1..Len(props) |-> ValueOf(props[i])]

\* lines 59 / 101: d.update(e)
DictUpdate_keep(d, e) ==
    [k \in DOMAIN d \cup DOMAIN e |-> IF k \in DOMAIN d THEN d[k] ELSE e[k]]
DictUpdate(d, e) ==
    [k \in DOMAIN d \cup DOMAIN e |-> IF k \in DOMAIN e THEN e[k] ELSE d[k]]

\* lines 65 / 107: l += new_list
ListExtend_front(l, new) == new \o l
ListExtend(l, new) == l \o new

\* lines 67-69: the prefix of every key, of the dict or of the list
UsePrefix(v) == [k \in DOMAIN v |-> SplitFirst(v[k])]

\* lines 33-36 / 82-85
resolver_divide ==
    /\ op \in {"cids2inchis", "cids2upacs"}
    /\ pc = "start"
    /\ LET ids == [i \in 1..Len(args.cids) |-> StrOfInt(args.cids[i])]
       IN  IF divide_list_raises(ids)
           THEN /\ raised' = "ValueError"
                /\ pc' = "done"
                /\ UNCHANGED chunks
           ELSE /\ chunks' = divide_list(ids)
                /\ pc' = "loop"
                /\ UNCHANGED raised
    /\ acc' = <<>>
    /\ bi' = 1
    /\ UNCHANGED <<op, args, sid, result, returned>>
    /\ FetchIdle

\* lines 39-51 / 88-93: the next batch's url is fetched
resolver_fetch ==
    /\ op \in {"cids2inchis", "cids2upacs"}
    /\ pc = "loop"
    /\ bi <= Len(chunks)
    /\ CallFetch(PropertyUrl(chunks[bi], QueryType))
    /\ pc' = "fetch"
    /\ UNCHANGED <<op, args, chunks, bi, acc, sid, result, raised, returned>>

\* lines 55-65 / 97-107: json.loads(r) and the batch's values are added
resolver_parse ==
    /\ op \in {"cids2inchis", "cids2upacs"}
    /\ pc = "fetch"
    /\ fpc = "ret"
    /\ IF fret.none
       THEN \* json.loads(None)
            /\ raised' = "TypeError"
            /\ pc' = "done"
            /\ UNCHANGED <<acc, bi>>
       ELSE LET props == fret.content.props
            IN  IF op = "cids2inchis" /\ SubscriptRaises(props)
                THEN /\ raised' = "KeyError"
                     /\ pc' = "done"
                     /\ UNCHANGED <<acc, bi>>
                ELSE /\ acc' = IF args.as_dict
                               THEN DictUpdate(acc, NewDict(props))
                               ELSE ListExtend(acc, NewList(props))
                     /\ bi' = bi + 1
                     /\ pc' = "loop"
                     /\ UNCHANGED raised
    /\ FetchTaken
    /\ returned' = Append(returned, fret)
    /\ UNCHANGED <<op, args, chunks, sid, result>>

\* lines 67-71 / 109: the loop is over
resolver_return ==
    /\ op \in {"cids2inchis", "cids2upacs"}
    /\ pc = "loop"
    /\ bi > Len(chunks)
    /\ result' = IF op = "cids2inchis" /\ args.use_prefix THEN UsePrefix(acc) ELSE acc
    /\ pc' = "done"
    /\ UNCHANGED <<op, args, chunks, bi, acc, sid, raised, returned>>
    /\ FetchIdle

\* ------------------------------------------------------------ cid2smile
\* lines 169-171
cid2smile_fetch ==
    /\ op = "cid2smile"
    /\ pc = "start"
    /\ CallFetch(SmilesUrl(args.cid))
    /\ pc' = "fetch"
    /\ UNCHANGED <<op, args, chunks, bi, acc, sid, result, raised, returned>>

\* lines 173-179
cid2smile_parse ==
    /\ op = "cid2smile"
    /\ pc = "fetch"
    /\ fpc = "ret"
    /\ IF fret.none
       THEN /\ result' = NaN
            /\ UNCHANGED raised
       ELSE IF fret.content.smiles = <<>>
            THEN \* root.findall(...)[0]
                 /\ raised' = "IndexError"
                 /\ UNCHANGED result
            ELSE /\ result' = fret.content.smiles[1]
                 /\ UNCHANGED raised
    /\ pc' = "done"
    /\ FetchTaken
    /\ returned' = Append(returned, fret)
    /\ UNCHANGED <<op, args, chunks, bi, acc, sid>>

\* ------------------------------------------------------------- mesh2pid
\* {mesh : {'mesh' : mesh, 'sid' : s, 'cid' : c}}
MeshRecord(mesh, s, c) == [m \in {mesh} |-> [mesh |-> mesh, sid |-> s, cid |-> c]]

\* line 204: j['esearchresult']['count'] != 0, as Python compares: a str is
\* never equal to the int 0
CountNotZero(c) == ~(c.ty = "int" /\ c.n = 0)

\* lines 196-198
mesh2pid_search ==
    /\ op = "mesh2pid"
    /\ pc = "start"
    /\ CallFetch(ESearchUrl(args.mesh))
    /\ pc' = "search"
    /\ UNCHANGED <<op, args, chunks, bi, acc, sid, result, raised, returned>>

\* lines 200-210 and 226-230
mesh2pid_result ==
    /\ op = "mesh2pid"
    /\ pc = "search"
    /\ fpc = "ret"
    /\ IF fret.none
       THEN /\ result' = MeshRecord(args.mesh, NaN, NaN)
            /\ pc' = "done"
            /\ FetchTaken
            /\ UNCHANGED <<sid, raised>>
       ELSE LET j == fret.content
            IN  IF CountNotZero(j.count)
                THEN IF j.idlist = <<>>
                     THEN \* j['esearchresult']['idlist'][0]
                          /\ raised' = "IndexError"
                          /\ pc' = "done"
                          /\ FetchTaken
                          /\ UNCHANGED <<sid, result>>
                     ELSE /\ sid' = j.idlist[1]
                          /\ CallFetch(SubstanceUrl(j.idlist[1]))
                          /\ pc' = "substance"
                          /\ UNCHANGED <<result, raised>>
                ELSE /\ result' = MeshRecord(args.mesh, NaN, NaN)
                     /\ pc' = "done"
                     /\ FetchTaken
                     /\ UNCHANGED <<sid, raised>>
    /\ returned' = Append(returned, fret)
    /\ UNCHANGED <<op, args, chunks, bi, acc>>

\* lines 212-224
mesh2pid_compound ==
    /\ op = "mesh2pid"
    /\ pc = "substance"
    /\ fpc = "ret"
    /\ IF fret.none
       THEN \* line 213 reads the local cid, which is not assigned yet
            /\ raised' = "UnboundLocalError"
            /\ UNCHANGED result
       ELSE LET cids == fret.content.cids
            IN  /\ result' = MeshRecord(args.mesh, sid,
                                        IF Len(cids) > 0 THEN cids[1] ELSE NaN)
                /\ UNCHANGED raised
    /\ pc' = "done"
    /\ FetchTaken
    /\ returned' = Append(returned, fret)
    /\ UNCHANGED <<op, args, chunks, bi, acc, sid>>

\* ------------------------------------------------------------ the calls
\* cids: n identifiers, distinct or repeating with period DupPeriod
Cids(n, period) == [i \in 1..n |-> ((i - 1) % period) + 1]
Periods == {DupPeriod, 3 * BatchMax}
MeshTerms == {"D000001", "D000002"}
\* lists that fill one batch and that need a second one
LongLens == {BatchMax, BatchMax + 1}

\* the calls made: every combination of the flags on short lists, the
\* default use_prefix and keys on the long ones
Calls ==
    {<<"__divide_list__", [ids |-> [i \in 1..n |-> StrOfInt(i)]]>> : n \in 0..MaxLen}
    \cup {<<"__safe_urlopen__", [url |-> u]>> : u \in RawUrls}
    \cup {<<"cids2inchis", [cids |-> Cids(n, p), as_dict |-> d, use_prefix |-> x, keys |-> k]>> :
            n \in 0..MaxSmall, p \in Periods, d \in BOOLEAN, x \in BOOLEAN, k \in BOOLEAN}
    \cup {<<"cids2inchis", [cids |-> Cids(n, p), as_dict |-> d, use_prefix |-> FALSE, keys |-> TRUE]>> :
            n \in LongLens, p \in Periods, d \in BOOLEAN}
    \cup {<<"cids2upacs", [cids |-> Cids(n, p), as_dict |-> d]>> :
            n \in (0..MaxSmall) \cup LongLens, p \in Periods, d \in BOOLEAN}
    \cup {<<"cid2smile", [cid |-> StrOfInt(c)]>> : c \in 1..2}
    \cup {<<"mesh2pid", [mesh |-> m]>> : m \in MeshTerms}

Init ==
    /\ \E c \in Calls : op = c[1] /\ args = c[2]
    /\ pc = "start"
    /\ chunks = <<>>
    /\ bi = 0
    /\ acc = <<>>
    /\ sid = NaN
    /\ result = <<>>
    /\ raised = "none"
    /\ fpc = "idle"
    /\ furl = <<>>
    /\ url = <<>>
    /\ depth = 0
    /\ fret = Absent
    /\ statuses = <<>>
    /\ lastBody = ErrorBody
    /\ log = <<>>
    /\ nreq = 0
    /\ fetches = <<>>
    /\ returned = <<>>

Next ==
    \/ divide_list_call
    \/ safe_urlopen_call
    \/ safe_urlopen_frame
    \/ safe_urlopen_overflow
    \/ safe_urlopen_return
    \/ resolver_divide
    \/ resolver_fetch
    \/ resolver_parse
    \/ resolver_return
    \/ cid2smile_fetch
    \/ cid2smile_parse
    \/ mesh2pid_search
    \/ mesh2pid_result
    \/ mesh2pid_compound

Spec == Init /\ [][Next]_vars

(***************************************************************************)
(* The claims.                                                             *)
(***************************************************************************)
\* the list __divide_list__ was given: its argument, or the resolver's
\* [str(int(i)) for i in cids]
Divided ==
    IF op = "__divide_list__" THEN args.ids
    ELSE [i \in 1..Len(args.cids) |-> StrOfInt(args.cids[i])]
DivideOps == {"__divide_list__", "cids2inchis", "cids2upacs"}
PropertyOps == {"cids2inchis", "cids2upacs"}

RECURSIVE Flatten(_)
Flatten(ss) == IF ss = <<>> THEN <<>> ELSE Head(ss) \o Flatten(Tail(ss))

\* C1: once __divide_list__ has run on a list of n >= 1 elements it has
\* returned ceil(n/100) chunks (the least k with 100 k >= n) that concatenate
\* to the list in order, none longer than 100, any two lengths at most 1 apart.
C1_DivideList ==
    (op \in DivideOps /\ pc # "start" /\ Len(Divided) >= 1) =>
        /\ raised # "ValueError"
        /\ Len(chunks) * 100 >= Len(Divided)
        /\ (Len(chunks) - 1) * 100 < Len(Divided)
        /\ Flatten(chunks) = Divided
        /\ \A i \in 1..Len(chunks) : Len(chunks[i]) <= 100
        /\ \A i, j \in 1..Len(chunks) : Len(chunks[i]) - Len(chunks[j]) <= 1

\* C1's case: a list cut into three chunks of unequal lengths
C1_Witness ==
    /\ op = "__divide_list__"
    /\ pc = "done"
    /\ Len(chunks) = 3
    /\ Len(chunks[1]) = Len(chunks[3]) + 1

\* C2: on the empty list __divide_list__ returns no chunks, and cids2inchis([])
\* and cids2upacs([]) return an empty result without a request and without
\* failing.
C2_EmptyInput ==
    (op \in DivideOps /\ pc = "done" /\ Len(Divided) = 0) =>
        /\ raised = "none"
        /\ result = <<>>
        /\ nreq = 0

\* C3: when __safe_urlopen__ returns, the last response received is the first
\* one whose status is neither 429 nor 503 (no request follows it), nothing was
\* raised, and the value returned is that response's body for a 200 and absent
\* for a 404 and for every other status; while the call is still running only
\* 429s and 503s have been received.
C3_FetchOutcome ==
    /\ fpc = "ret" =>
          /\ statuses # <<>>
          /\ \A i \in 1..(Len(statuses) - 1) : statuses[i] \in {429, 503}
          /\ statuses[Len(statuses)] \notin {429, 503}
          /\ raised = "none"
          /\ fret = IF statuses[Len(statuses)] = 200
                    THEN [none |-> FALSE, content |-> lastBody]
                    ELSE [none |-> TRUE, content |-> <<>>]
    /\ fpc = "call" => \A i \in 1..Len(statuses) : statuses[i] \in {429, 503}

\* C3's case: a status the fetcher does not name ends the call with absent
C3_Witness ==
    /\ fpc = "ret"
    /\ statuses = <<503, 500>>
    /\ fret.none

\* C4: a fetch answered with k 429s and 503s and then another status has issued
\* exactly k+1 GETs, all for the url it was called with, slept 0.5 s after each
\* 429 and 1 s after each 503 before the next GET, and returns what the last
\* response gives; a 429 followed by a 200 returns the 200's body after one
\* retry.
C4_Retries ==
    fpc \in {"call", "ret"} =>
        /\ \A i \in 1..Len(statuses) :
              /\ log[2 * i - 1] = [ev |-> "GET", url |-> furl, ms |-> 0]
              /\ statuses[i] = 429 => log[2 * i] = [ev |-> "sleep", url |-> <<>>, ms |-> 500]
              /\ statuses[i] = 503 => log[2 * i] = [ev |-> "sleep", url |-> <<>>, ms |-> 1000]
        /\ fpc = "call" => Len(log) = 2 * Len(statuses)
        /\ fpc = "ret" => Len(log) = 2 * Len(statuses) - 1
        /\ (fpc = "ret" /\ op = "__safe_urlopen__") => nreq = Len(statuses)
        /\ (fpc = "ret" /\ statuses = <<429, 200>>) =>
              fret = [none |-> FALSE, content |-> lastBody]

\* C4's case: a 429, a 503 and then a 200
C4_Witness ==
    /\ fpc = "ret"
    /\ statuses = <<429, 503, 200>>
    /\ Len(log) = 5
    /\ ~fret.none

\* C5: however many 429s and 503s have been received in a row, the fetch has
\* neither returned nor raised: it is still retrying.
C5_UnboundedRetries ==
    (statuses # <<>> /\ \A i \in 1..Len(statuses) : statuses[i] \in {429, 503}) =>
        /\ fpc = "call"
        /\ raised = "none"

\* C6: whatever the two fetches return, mesh2pid returns a mapping with the
\* one key mesh whose value has exactly the fields mesh, sid and cid, with mesh
\* the term given.  (The fetches return, and a search result with ids has a
\* count that is not zero: a fetch that ends in RecursionError is C5's case,
\* a count of zero that line 204 does not take for zero is C7's.)
C6_MeshShape ==
    (op = "mesh2pid" /\ pc = "done" /\ raised \notin {"RecursionError", "IndexError"}) =>
        /\ raised = "none"
        /\ DOMAIN result = {args.mesh}
        /\ DOMAIN result[args.mesh] = {"mesh", "sid", "cid"}
        /\ result[args.mesh].mesh = args.mesh

\* the search came back absent, or with a count of zero
NoSearchResult == returned[1].none \/ returned[1].content.count.n = 0

\* C7: when the search fetch returns absent or a count of zero, mesh2pid
\* returns {mesh: {mesh, sid: nan, cid: nan}} and has made no second fetch; a
\* second fetch is made only on a non-zero count, for the substance url of
\* the first id of the idlist.
C7_NoSearchResult ==
    (op = "mesh2pid" /\ returned # <<>>) =>
        /\ NoSearchResult =>
              /\ pc = "done"
              /\ raised = "none"
              /\ result = [m \in {args.mesh} |->
                             [mesh |-> args.mesh, sid |-> NaN, cid |-> NaN]]
              /\ Len(fetches) = 1
        /\ Len(fetches) > 1 =>
              /\ ~NoSearchResult
              /\ Len(fetches) = 2
              /\ fetches[2] = [kind |-> "substance", sid |-> returned[1].content.idlist[1]]

\* C8: a resolver that was handed absent by a fetch returns normally, with
\* the missing data as nan (cid2smile returns nan).
C8_NotFoundNeverRaised ==
    (op \in {"cids2inchis", "cids2upacs", "cid2smile", "mesh2pid"} /\ pc = "done"
        /\ \E i \in 1..Len(returned) : returned[i].none) =>
        /\ raised = "none"
        /\ op = "cid2smile" => result = NaN

\* the values of one parsed Properties list, in response order: the
\* requested member, nan where cids2upacs finds none
ParsedValues(props) ==
    [i \in 1..Len(props) |-> IF props[i].has THEN props[i].val ELSE NaN]
\* the value as returned: under use_prefix, the part before its first hyphen
Returned(v) == IF op = "cids2inchis" /\ args.use_prefix THEN <<v[1]>> ELSE v
\* batch b was answered with one record per requested identifier, in request
\* order, each with the property
InRequestOrder(b) ==
    LET props == returned[b].content.props
    IN  /\ Len(props) = Len(chunks[b])
        /\ \A i \in 1..Len(props) :
              props[i].has /\ props[i].CID = chunks[b][i][1][2]

\* C9: with as_dict=False the resolver returns the batches' parsed values
\* concatenated in batch order and, within a batch, response order; when
\* every batch was answered in request order with every identifier, the
\* result has the input's length and its i-th element is the value of the
\* i-th identifier.
C9_ListMode ==
    (op \in PropertyOps /\ pc = "done" /\ raised = "none" /\ ~args.as_dict) =>
        /\ Len(returned) = Len(chunks)
        /\ LET values == Flatten([b \in 1..Len(returned) |->
                                    ParsedValues(returned[b].content.props)])
           IN  result = [i \in 1..Len(values) |-> Returned(values[i])]
        /\ (\A b \in 1..Len(returned) : InRequestOrder(b)) =>
              /\ Len(result) = Len(args.cids)
              /\ \A i \in 1..Len(result) :
                    /\ result[i][1][1] = QueryType
                    /\ result[i][1][2] = args.cids[i]

\* C9's case: 101 identifiers, two batches, every one resolved
C9_Witness ==
    /\ op \in PropertyOps
    /\ pc = "done"
    /\ raised = "none"
    /\ ~args.as_dict
    /\ Len(returned) = 2
    /\ \A b \in 1..2 : InRequestOrder(b)
    /\ Len(result) = 101
    /\ result[101][1][2] = 101

\* the batches with a record for CID k
BatchesWith(k) ==
    {b \in 1..Len(returned) :
        \E i \in 1..Len(returned[b].content.props) :
            returned[b].content.props[i].CID = k}

\* C10: with as_dict=True the resolver returns a mapping whose keys are
\* exactly the CIDs of the records returned over all batches (the requested
\* identifiers when every batch returned them all), each mapped to the value
\* of a record of that CID, taken from the latest batch that has one.
C10_DictMode ==
    (op \in PropertyOps /\ pc = "done" /\ raised = "none" /\ args.as_dict) =>
        /\ DOMAIN result = {k \in 1..(3 * 100) : BatchesWith(k) # {}}
        /\ \A b \in 1..Len(returned) :
              \A i \in 1..Len(returned[b].content.props) :
                  returned[b].content.props[i].CID \in 1..(3 * 100)
        /\ \A k \in DOMAIN result :
              LET b == CHOOSE x \in BatchesWith(k) : \A y \in BatchesWith(k) : y <= x
                  props == returned[b].content.props
              IN  \E i \in 1..Len(props) :
                     /\ props[i].CID = k
                     /\ result[k] = Returned(ParsedValues(props)[i])
        /\ (\A b \in 1..Len(returned) : InRequestOrder(b)) =>
              DOMAIN result = {args.cids[i] : i \in 1..Len(args.cids)}

\* C10's case: compound 1 is in both batches with different values, and
\* compound 101 only in the second
C10_Witness ==
    /\ op \in PropertyOps
    /\ pc = "done"
    /\ raised = "none"
    /\ args.as_dict
    /\ Len(returned) = 2
    /\ returned[1].content.props[1].CID = 1
    /\ returned[1].content.props[1].val[1][3] = 1
    /\ result[1][1][3] = 2

====
